---- MODULE Spec2Model ----
(***************************************************************************)
(* Upload Video Mixer: segment analysis, clip selection and extraction.    *)
(*                                                                         *)
(* Units.  Times are integers counting twelfths of a second, so that the   *)
(* three analysis modes' frame offsets (segment_duration divided by        *)
(* frames_per_segment: 3/1, 1.5/2, 1/3 seconds) are exact.  Text scores    *)
(* are hundredths, weights and text penalties tenths; a per-frame total     *)
(* score is in hundredths and a segment mean is kept times 6 (the number of *)
(* sampled frames is 1, 2 or 3), so every division of the code is exact.   *)
(***************************************************************************)
EXTENDS Integers, Sequences, FiniteSets, TLC

\* ------------------------------------------------------------------ bounds
MaxFrames == 20
FramePeriod == 2
RandPeriod == 1
RandSteps == 2
LongFrames == 208
LongWindow == 8
MaxSelStart == 6
MaxSelSegments == 3

\* ----------------------------------------------------------------- helpers
Sec(n) == n * 12

Min(a, b) == IF a < b THEN a ELSE b

Max(a, b) == IF a > b THEN a ELSE b

Abs(x) == IF x < 0 THEN 0 - x ELSE x

\* Python int(): truncation toward zero of the quotient num/den, den > 0
IntDiv(num, den) == IF num >= 0 THEN num \div den ELSE 0 - ((0 - num) \div den)

RECURSIVE Sum(_)
Sum(s) == IF s = <<>> THEN 0 ELSE Head(s) + Sum(Tail(s))

\* np.mean of the per-frame scores, kept multiplied by 6
Mean(s) == (Sum(s) * 6) \div Len(s)

\* -------------------------------------------------------------- constants.py
ANALYSIS_MODES ==
  [ fast         |-> [segment_duration |-> Sec(3), frames_per_segment |-> 1, max_segments |-> 30],
    precise      |-> [segment_duration |-> 18,     frames_per_segment |-> 2, max_segments |-> 60],
    very_precise |-> [segment_duration |-> Sec(1), frames_per_segment |-> 3, max_segments |-> 100] ]

ModeNames == {"fast", "precise", "very_precise"}

\* SCORING_WEIGHTS, in tenths
WeightVisual == 3
WeightFace == 4
WeightMotion == 3
FaceBoost == 2

\* DETECTION_PARAMS text penalties, in tenths
TextPenaltyHigh == 1
TextPenaltyMedium == 5

DEFAULT_SETTINGS ==
  [ analysis_mode         |-> "precise",
    max_clips_per_video   |-> 3,
    min_clip_duration     |-> Sec(3),
    max_clip_duration     |-> Sec(8),
    exclude_last_seconds  |-> Sec(5),
    exclude_first_seconds |-> 0,
    force_diversity       |-> TRUE,
    face_detection_only   |-> FALSE,
    avoid_text            |-> FALSE,
    remove_text_method    |-> "None",
    text_net              |-> FALSE,
    target_face_encoding  |-> FALSE,
    IS_RAILWAY            |-> FALSE ]

\* Names bound in the body of analyze_video_segments_with_face (its parameters
\* and local variables): what locals() holds at the min_distance line
AnalyzerLocals ==
  { "video_path", "target_face_encoding", "segment_duration", "min_clip_duration",
    "max_clip_duration", "video_index", "analysis_mode", "avoid_text", "text_net",
    "remove_text_method", "exclude_first_seconds", "face_threshold", "cap", "fps",
    "total_frames", "duration", "mode_params", "analysis_segment_duration",
    "frames_per_segment", "max_segments", "face_model", "upsample",
    "available_duration", "num_segments", "segment_scores", "face_cascade",
    "progress_text", "progress_bar", "prev_frame", "i", "start_time",
    "scores_in_segment", "has_target_face", "face_locations_in_segment", "j",
    "frame_time", "frame_pos", "ret", "frame", "visual_score", "face_score",
    "faces_data", "face", "motion_score", "text_penalty", "text_score",
    "total_score", "avg_score", "segments_with_face", "segments_without_face" }

\* ------------------------------------------------------------------ footage
\* What the detectors return on one decoded frame: ret (cap.read succeeded),
\* visual (calculate_visual_interest_score), face (calculate_face_score of the
\* faces found when a target is searched), haar (number of Haar faces),
\* target (some face is_target), diff (absdiff score against the previous
\* sampled frame), text (detect_text_in_frame, hundredths)
Frame(ok, v, f, h, t, d, x) ==
  [ret |-> ok, visual |-> v, face |-> f, haar |-> h, target |-> t, diff |-> d, text |-> x]

FrameKinds ==
  { Frame(FALSE, 0, 0, 0, FALSE, 0, 0),
    Frame(TRUE, 100, 0, 0, FALSE, 10, 10),
    Frame(TRUE, 20, 10, 1, TRUE, 20, 25),
    Frame(TRUE, 50, 10, 1, FALSE, 0, 35),
    Frame(TRUE, 80, 0, 0, FALSE, 10, 20),
    Frame(TRUE, 80, 30, 1, TRUE, 10, 30) }

DefaultFootage == [p \in 1..1 |-> Frame(TRUE, 100, 0, 0, FALSE, 10, 10)]

NoFrame == Frame(FALSE, 0, 0, 0, FALSE, 0, 0)

VARIABLES
  settings,        \* the widgets' values and the environment (upload_video_mixer.py)
  video,           \* [fps, total_frames, footage]: the uploaded file
  rng,             \* the random module's stream, as numerators over RandSteps
  rng_pos,         \* draws made so far
  pc,              \* where the pipeline is
  duration,        \* analyze_video_segments_with_face: duration
  num_segments,
  i,               \* iterations of the segment loop completed
  prev_frame,
  segment_scores,
  min_distance,    \* min_distance_between_clips, once computed
  k,               \* create_clips_from_segments: segments consumed
  clips,
  used_times,
  e,               \* extract_best_clips_with_face: segments consumed
  extracted,
  apc,             \* video_assembler.py, video_normalizer.py: where the call is
  args,            \* the arguments of the call
  work,            \* the function's locals
  ret,             \* the value returned, Pending until the return
  files,           \* the temp directory: the paths that exist
  closed,          \* ids of the clip handles that were closed
  next_id,         \* the id the next handle opened gets
  now,             \* time.time() in milliseconds, from the first call
  log              \* the calls into MoviePy made so far, in order

assembler == << apc, args, work, ret, files, closed, next_id, now, log >>

vars == << settings, video, rng, rng_pos, pc, duration, num_segments, i, prev_frame,
           segment_scores, min_distance, k, clips, used_times, e, extracted,
           assembler >>

inputs == << settings, video, rng >>

\* ------------------------------------------------------------ text_detector.py
calculate_text_penalty_inclusive(text_score) ==
  IF text_score >= 30 THEN TextPenaltyHigh
  ELSE IF text_score >= 20 THEN TextPenaltyMedium
  ELSE 10

calculate_text_penalty(text_score) ==
  IF text_score > 30 THEN TextPenaltyHigh
  ELSE IF text_score > 20 THEN TextPenaltyMedium
  ELSE 10

\* ----------------------------------------------------------- video_analyzer.py
Duration(v) == IF v.fps > 0 THEN (v.total_frames * 12) \div v.fps ELSE 0

NumSegmentsNoReserve(d, st) ==
  Min(ANALYSIS_MODES[st.analysis_mode].max_segments,
      IntDiv(d - st.exclude_first_seconds,
             ANALYSIS_MODES[st.analysis_mode].segment_duration))

NumSegments(d, st) ==
  Min(ANALYSIS_MODES[st.analysis_mode].max_segments,
      IntDiv((d - st.exclude_first_seconds) - st.min_clip_duration,
             ANALYSIS_MODES[st.analysis_mode].segment_duration))

StartTimeFromZero(st, idx) == idx * ANALYSIS_MODES[st.analysis_mode].segment_duration

StartTime(st, idx) ==
  st.exclude_first_seconds + idx * ANALYSIS_MODES[st.analysis_mode].segment_duration

FrameTime(st, start_time, j) ==
  start_time + (j * ANALYSIS_MODES[st.analysis_mode].segment_duration)
                 \div ANALYSIS_MODES[st.analysis_mode].frames_per_segment

FramePos(v, frame_time) == IntDiv(frame_time * v.fps, 12)

ReadFrame(v, frame_pos) == v.footage[(frame_pos % Len(v.footage)) + 1]

FaceScore(st, frame) ==
  IF st.target_face_encoding THEN frame.face ELSE frame.haar * 200

MotionScore(frame, prev) == IF prev.ret THEN frame.diff ELSE 0

TextPenaltyApplies(st) ==
  st.avoid_text /\ st.text_net /\ st.remove_text_method = "None"
  /\ st.analysis_mode # "fast"

TextPenalty(st, frame) ==
  IF TextPenaltyApplies(st)
  THEN calculate_text_penalty(frame.text)
  ELSE 10

TotalScore(st, frame, prev) ==
  ( frame.visual * WeightVisual + FaceScore(st, frame) * WeightFace
    + MotionScore(frame, prev) * WeightMotion ) * TextPenalty(st, frame)

\* The frame loop of one segment.  Beside the code's scores_in_segment,
\* has_target_face and prev_frame, acc records hits (how many sampled frames
\* matched the target) and text_calls (each call of calculate_text_penalty as
\* <<text_score, result>>)
RECURSIVE ScanFrames(_, _, _, _, _)
ScanFrames(st, v, start_time, j, acc) ==
  IF j >= ANALYSIS_MODES[st.analysis_mode].frames_per_segment THEN acc
  ELSE LET frame_pos == FramePos(v, FrameTime(st, start_time, j))
           frame == ReadFrame(v, frame_pos)
       IN IF frame_pos >= v.total_frames THEN acc
          ELSE IF ~frame.ret THEN ScanFrames(st, v, start_time, j + 1, acc)
          ELSE ScanFrames(st, v, start_time, j + 1,
                 [ scores |-> Append(acc.scores, TotalScore(st, frame, acc.prev_frame)),
                   has_target_face |->
                     acc.has_target_face \/ (st.target_face_encoding /\ frame.target),
                   hits |-> acc.hits
                     + (IF st.target_face_encoding /\ frame.target THEN 1 ELSE 0),
                   text_calls |->
                     IF TextPenaltyApplies(st)
                     THEN Append(acc.text_calls, <<frame.text, TextPenalty(st, frame)>>)
                     ELSE acc.text_calls,
                   prev_frame |-> frame ])

RECURSIVE Power(_, _)
Power(b, n) == IF n = 0 THEN 1 ELSE b * Power(b, n - 1)

SegmentAverageCompounded(scan) ==
  IF scan.has_target_face THEN Mean(scan.scores) * Power(FaceBoost, scan.hits)
  ELSE Mean(scan.scores)

SegmentAverage(scan) ==
  IF scan.has_target_face THEN Mean(scan.scores) * FaceBoost ELSE Mean(scan.scores)

\* list.sort(key=score, reverse=True): stable, equal scores keep their order
RECURSIVE InsertByScore(_, _)
InsertByScore(sorted, x) ==
  IF sorted = <<>> THEN <<x>>
  ELSE IF Head(sorted).score >= x.score
       THEN <<Head(sorted)>> \o InsertByScore(Tail(sorted), x)
       ELSE <<x>> \o sorted

SegmentsLeftUnsorted(s) == s

RECURSIVE SortByScore(_)
SortByScore(s) ==
  IF s = <<>> THEN <<>>
  ELSE InsertByScore(SortByScore(SubSeq(s, 1, Len(s) - 1)), s[Len(s)])

HasFace(s) == s.has_target_face

NoFace(s) == ~s.has_target_face

PrioritizeTargetFace(st, sorted) ==
  IF st.target_face_encoding
  THEN SelectSeq(sorted, HasFace) \o SelectSeq(sorted, NoFace)
  ELSE sorted

MinDistanceBetweenClips(st) ==
  IF "force_diversity" \in AnalyzerLocals /\ st.force_diversity THEN Sec(10) ELSE Sec(5)

\* create_clips_from_segments -------------------------------------------------
TooCloseAfterOnly(start, used, dist) ==
  \E used_time \in used : 0 <= start - used_time /\ start - used_time < dist

TooClose(start, used, dist) == \E used_time \in used : Abs(start - used_time) < dist

MaxPossibleDurationLargest(max_clip, remaining) == Max(max_clip, remaining)

MaxPossibleDuration(max_clip, remaining) == Min(max_clip, remaining)

UniformFromZero(a, b, u) == (b * u) \div RandSteps

\* random.uniform(a, b) = a + (b - a) * random(): the draw u is a numerator
\* over RandSteps (0 is a, RandSteps is b, which rounding can return)
Uniform(a, b, u) == a + ((b - a) * u) \div RandSteps

NextDraw == rng[(rng_pos % Len(rng)) + 1]

Clip(segment, start, end_time, clip_duration) ==
  [ start |-> start, end |-> end_time, duration |-> clip_duration,
    score |-> segment.score, has_target_face |-> segment.has_target_face ]

\* One iteration of the loop over segment_scores: the new values of
\* clips, used_times and the number of draws made
SelectOne(segment, video_duration, min_clip, max_clip, dist) ==
  LET start == segment.start_time
      remaining == video_duration - start
      drawn == Uniform(min_clip, MaxPossibleDuration(max_clip, remaining), NextDraw)
      over == start + drawn > video_duration
      end_time == IF over THEN video_duration ELSE start + drawn
      clip_duration == IF over THEN video_duration - start ELSE drawn
  IN IF TooClose(start, used_times, dist) \/ remaining < min_clip
     THEN [clips |-> clips, used_times |-> used_times, draws |-> 0]
     ELSE IF clip_duration >= min_clip /\ start < video_duration
          THEN [ clips |-> Append(clips, Clip(segment, start, end_time, clip_duration)),
                 used_times |-> used_times \cup {start}, draws |-> 1 ]
          ELSE [clips |-> clips, used_times |-> used_times, draws |-> 1]

\* extract_best_clips_with_face -------------------------------------------------
MaxClipsPerVideo(st) ==
  IF st.IS_RAILWAY THEN Min(st.max_clips_per_video, 2) ELSE st.max_clips_per_video

BestSegments(st) == SubSeq(clips, 1, Min(Len(clips), MaxClipsPerVideo(st)))

\* VideoFileClip(video_path).duration
VideoFileDuration(v) == Duration(v)

\* video.subclip(actual_start, actual_end) for one selected segment, or <<>>
Subclip(st, v, segment) ==
  LET end_time == Min(segment.end, VideoFileDuration(v))
      actual_start == Max(0, segment.start)
      actual_end == Min(end_time, VideoFileDuration(v))
  IN IF st.face_detection_only /\ st.target_face_encoding /\ ~segment.has_target_face
     THEN <<>>
     ELSE IF segment.start >= VideoFileDuration(v) THEN <<>>
     ELSE IF actual_end > actual_start /\ actual_end - actual_start >= Sec(1)
          THEN << [ start |-> actual_start, end |-> actual_end,
                    has_target_face |-> segment.has_target_face ] >>
          ELSE <<>>

\* ------------------------------------------------------------------- inputs
Streams == [1..RandPeriod -> 0..RandSteps]

Footages == [1..FramePeriod -> FrameKinds]

MixedFootage ==
  << Frame(TRUE, 20, 10, 1, TRUE, 20, 25), Frame(TRUE, 100, 0, 0, FALSE, 10, 10),
     Frame(TRUE, 100, 0, 0, FALSE, 10, 10) >>

\* Python's None, and the value of a call that has not returned
None == [ id |-> -1 ]

Pending == [ id |-> -2 ]

\* Nothing of the assembler has run
AssemblerIdle ==
  /\ apc = "idle"
  /\ args = <<>>
  /\ work = <<>>
  /\ ret = Pending
  /\ files = {}
  /\ closed = {}
  /\ next_id = 1
  /\ now = 0
  /\ log = <<>>

Fresh ==
  /\ rng_pos = 0
  /\ pc = "start"
  /\ duration = 0
  /\ num_segments = 0
  /\ i = 0
  /\ prev_frame = NoFrame
  /\ segment_scores = <<>>
  /\ min_distance = 0
  /\ k = 0
  /\ clips = <<>>
  /\ used_times = {}
  /\ e = 0
  /\ extracted = <<>>

\* Short videos of every length, under every mode and clip-duration setting
InitTiming ==
  /\ \E n \in 0..MaxFrames, f \in {0, 2} :
       video = [fps |-> f, total_frames |-> n, footage |-> DefaultFootage]
  /\ \E m \in ModeNames, lo \in {Sec(2), Sec(3)}, hi \in {Sec(5), Sec(8)},
        first \in {0, Sec(1)} :
       settings = [DEFAULT_SETTINGS EXCEPT !.analysis_mode = m,
                     !.min_clip_duration = lo, !.max_clip_duration = hi,
                     !.exclude_first_seconds = first]
  /\ rng \in Streams

\* Every footage, with and without a reference face and text handling
InitScoring ==
  /\ \E fo \in Footages :
       video = [fps |-> 1, total_frames |-> MaxFrames \div 2, footage |-> fo]
  /\ \E m \in ModeNames, t \in BOOLEAN, a \in BOOLEAN, r \in {"None", "crop"} :
       settings = [DEFAULT_SETTINGS EXCEPT !.analysis_mode = m,
                     !.target_face_encoding = t, !.avoid_text = a, !.text_net = a,
                     !.remove_text_method = r]
  /\ rng = [p \in 1..1 |-> 0]

\* The options of the form that do not reach the analyzer's arithmetic
InitOptions ==
  /\ video = [fps |-> 2, total_frames |-> MaxFrames, footage |-> MixedFootage]
  /\ \E m \in ModeNames, d \in BOOLEAN, last \in {0, Sec(5)}, n \in {1, 3},
        only \in BOOLEAN, t \in BOOLEAN, rw \in BOOLEAN :
       settings = [DEFAULT_SETTINGS EXCEPT !.analysis_mode = m,
                     !.force_diversity = d, !.exclude_last_seconds = last,
                     !.max_clips_per_video = n, !.face_detection_only = only,
                     !.target_face_encoding = t, !.IS_RAILWAY = rw]
  /\ rng \in Streams

\* Videos long enough for max_segments to cap the segment count
InitLong ==
  /\ \E n \in (LongFrames - LongWindow)..LongFrames :
       video = [fps |-> 2, total_frames |-> n, footage |-> DefaultFootage]
  /\ \E m \in ModeNames, first \in {0, Sec(10)} :
       settings = [DEFAULT_SETTINGS EXCEPT !.analysis_mode = m,
                     !.exclude_first_seconds = first]
  /\ rng = [p \in 1..1 |-> RandSteps]

Init == Fresh /\ AssemblerIdle /\ (InitTiming \/ InitScoring \/ InitOptions \/ InitLong)

\* ------------------------------------------------------------------ actions
\* analyze_video_segments_with_face, lines 107-137: open the file, return []
\* for a video shorter than a clip, else set the segment loop up
AnalyzeBegin ==
  /\ pc = "start"
  /\ duration' = Duration(video)
  /\ IF Duration(video) < settings.min_clip_duration
     THEN /\ pc' = "extract"
          /\ num_segments' = num_segments
     ELSE /\ pc' = "analyze"
          /\ num_segments' = NumSegments(Duration(video), settings)
  /\ UNCHANGED << inputs, assembler, rng_pos, i, prev_frame, segment_scores, min_distance, k,
                  clips, used_times, e, extracted >>

\* One iteration of the segment loop that does not break
AnalyzeSegment ==
  /\ pc = "analyze"
  /\ i < num_segments
  /\ StartTime(settings, i) + settings.min_clip_duration <= duration
  /\ LET scan == ScanFrames(settings, video, StartTime(settings, i), 0,
                   [ scores |-> <<>>, has_target_face |-> FALSE, hits |-> 0,
                     text_calls |-> <<>>, prev_frame |-> prev_frame ])
     IN /\ prev_frame' = scan.prev_frame
        /\ segment_scores' =
             IF scan.scores # <<>>
             THEN Append(segment_scores,
                    [ start_time |-> StartTime(settings, i),
                      score |-> SegmentAverage(scan),
                      has_target_face |-> scan.has_target_face,
                      scores_in_segment |-> scan.scores,
                      hits |-> scan.hits,
                      text_calls |-> scan.text_calls ])
             ELSE segment_scores
  /\ i' = i + 1
  /\ UNCHANGED << inputs, assembler, rng_pos, pc, duration, num_segments, min_distance, k, clips,
                  used_times, e, extracted >>

\* The loop is over (exhausted, or the break): sort, put the target's segments
\* first, fix min_distance and enter create_clips_from_segments
AnalyzeRank ==
  /\ pc = "analyze"
  /\ \/ i >= num_segments
     \/ StartTime(settings, i) + settings.min_clip_duration > duration
  /\ segment_scores' = PrioritizeTargetFace(settings, SortByScore(segment_scores))
  /\ min_distance' = MinDistanceBetweenClips(settings)
  /\ pc' = "select"
  /\ UNCHANGED << inputs, assembler, rng_pos, duration, num_segments, i, prev_frame, k, clips,
                  used_times, e, extracted >>

\* One iteration of create_clips_from_segments' loop
SelectSegment ==
  /\ pc = "select"
  /\ k < Len(segment_scores)
  /\ LET r == SelectOne(segment_scores[k + 1], duration, settings.min_clip_duration,
                        settings.max_clip_duration, min_distance)
     IN /\ clips' = r.clips
        /\ used_times' = r.used_times
        /\ rng_pos' = rng_pos + r.draws
  /\ k' = k + 1
  /\ UNCHANGED << inputs, assembler, pc, duration, num_segments, i, prev_frame, segment_scores,
                  min_distance, e, extracted >>

\* create_clips_from_segments returns clips to extract_best_clips_with_face
SelectReturn ==
  /\ pc = "select"
  /\ k >= Len(segment_scores)
  /\ pc' = "extract"
  /\ UNCHANGED << inputs, assembler, rng_pos, duration, num_segments, i, prev_frame,
                  segment_scores, min_distance, k, clips, used_times, e, extracted >>

\* One iteration of the loop over best_segments[:max_clips_per_video]; valid is
\* whether the cut clip passes the resize and the frame probes that follow
ExtractClip ==
  /\ pc = "extract"
  /\ e < Len(BestSegments(settings))
  /\ \E valid \in BOOLEAN :
       extracted' = IF valid
                    THEN extracted \o Subclip(settings, video, BestSegments(settings)[e + 1])
                    ELSE extracted
  /\ e' = e + 1
  /\ UNCHANGED << inputs, assembler, rng_pos, pc, duration, num_segments, i, prev_frame,
                  segment_scores, min_distance, k, clips, used_times >>

ExtractReturn ==
  /\ pc = "extract"
  /\ e >= Len(BestSegments(settings))
  /\ pc' = "done"
  /\ UNCHANGED << inputs, assembler, rng_pos, duration, num_segments, i, prev_frame,
                  segment_scores, min_distance, k, clips, used_times, e, extracted >>

Next ==
  \/ AnalyzeBegin
  \/ AnalyzeSegment
  \/ AnalyzeRank
  \/ SelectSegment
  \/ SelectReturn
  \/ ExtractClip
  \/ ExtractReturn

Spec == Init /\ [][Next]_vars

\* create_clips_from_segments on its own: any segment list, in any order, with
\* starts before, near and past the end of the video
SelSegment(t) ==
  [ start_time |-> t, score |-> 0, has_target_face |-> FALSE,
    scores_in_segment |-> <<>>, hits |-> 0, text_calls |-> <<>> ]

SelSegments == { SelSegment(Sec(n)) : n \in 0..MaxSelStart }

InitSelector ==
  /\ video = [fps |-> 2, total_frames |-> 0, footage |-> DefaultFootage]
  /\ \E lo \in {Sec(2), Sec(3)}, hi \in {Sec(5), Sec(8)} :
       settings = [DEFAULT_SETTINGS EXCEPT !.min_clip_duration = lo,
                     !.max_clip_duration = hi]
  /\ rng \in [1..1 -> 0..RandSteps]
  /\ rng_pos = 0
  /\ pc = "select"
  /\ duration \in {Sec(4), Sec(MaxSelStart), Sec(MaxSelStart + 1) + 6}
  /\ num_segments = 0
  /\ i = 0
  /\ prev_frame = NoFrame
  /\ segment_scores \in UNION { [1..n -> SelSegments] : n \in 0..MaxSelSegments }
  /\ min_distance \in {Sec(2), Sec(5)}
  /\ k = 0
  /\ clips = <<>>
  /\ used_times = {}
  /\ e = 0
  /\ extracted = <<>>
  /\ AssemblerIdle

NextSelector ==
  \/ SelectSegment
  \/ SelectReturn

SpecSelector == InitSelector /\ [][NextSelector]_vars

\* ------------------------------------------------------------------- claims
Returned == pc \in {"extract", "done"}

\* C1: any two distinct clips returned by create_clips_from_segments have
\* start times at least min_distance_between_clips apart.
C1_StartsSpaced ==
  \A a, b \in 1..Len(clips) :
    a # b => Abs(clips[a].start - clips[b].start) >= min_distance

C1_Witness ==
  /\ Returned
  /\ Len(clips) = 2
  /\ Len(segment_scores) = 2
  /\ clips[2].start < clips[1].start
  /\ min_distance = Sec(5)

\* C2 as stated: the clips returned for one source video never overlap.
C2_NonOverlapping ==
  \A a, b \in 1..Len(clips) :
    clips[a].start < clips[b].start => clips[a].end <= clips[b].start

\* C2 amended: two returned clips overlap by at most max_clip_duration minus
\* min_distance, so they are disjoint whenever max_clip_duration <= min_distance.
C2_OverlapBounded ==
  \A a, b \in 1..Len(clips) :
    clips[a].start < clips[b].start =>
      clips[a].end - clips[b].start <= Max(0, settings.max_clip_duration - min_distance)

C2_Witness ==
  /\ Returned
  /\ \E a, b \in 1..Len(clips) :
       /\ clips[a].start < clips[b].start
       /\ clips[a].end - clips[b].start = settings.max_clip_duration - min_distance
       /\ clips[a].end > clips[b].start

\* C3: every returned clip has min_clip_duration <= duration <= max_clip_duration,
\* end = start + duration and end <= video_duration.
C3_ClipWithinBounds ==
  \A a \in 1..Len(clips) :
    /\ settings.min_clip_duration <= clips[a].duration
    /\ clips[a].duration <= settings.max_clip_duration
    /\ clips[a].end = clips[a].start + clips[a].duration
    /\ clips[a].end <= duration

C3_Witness ==
  /\ Returned
  /\ \E a \in 1..Len(clips) :
       /\ duration - clips[a].start < settings.max_clip_duration
       /\ clips[a].end = duration
       /\ clips[a].duration > settings.min_clip_duration
  /\ \E s \in 1..Len(segment_scores) :
       /\ segment_scores[s].start_time < duration
       /\ duration - segment_scores[s].start_time < settings.min_clip_duration

Ranked == pc \in {"select", "extract", "done"}

\* C4 as stated: with the diversity option checked the Clip Selector is given a
\* min_distance of 10 s, and 5 s with it unchecked.
C4_DiversityRaisesDistance ==
  pc = "select" =>
    min_distance = (IF settings.force_diversity THEN Sec(10) ELSE Sec(5))

\* C5 as stated: with "exclude the last X seconds" set to X > 0, no extracted
\* clip covers a time later than the source duration minus X.
C5_LastSecondsExcluded ==
  settings.exclude_last_seconds > 0 =>
    \A x \in 1..Len(extracted) :
      extracted[x].end <= VideoFileDuration(video) - settings.exclude_last_seconds

SegmentOnGrid(start_time) ==
  /\ \E idx \in 0..ANALYSIS_MODES[settings.analysis_mode].max_segments :
       start_time = settings.exclude_first_seconds
                      + idx * ANALYSIS_MODES[settings.analysis_mode].segment_duration
  /\ settings.exclude_first_seconds <= start_time
  /\ start_time + settings.min_clip_duration <= Duration(video)

\* C6: every scored segment, and every clip made from one, starts at
\* exclude_first_seconds + i * segment_duration for an integer i >= 0, at or
\* after exclude_first_seconds and with start + min_clip_duration <= D.
C6_SegmentsOnGrid ==
  /\ \A s \in 1..Len(segment_scores) : SegmentOnGrid(segment_scores[s].start_time)
  /\ \A a \in 1..Len(clips) : SegmentOnGrid(clips[a].start)

C6_Witness ==
  /\ pc = "done"
  /\ settings.exclude_first_seconds > 0
  /\ Len(clips) >= 2
  /\ \E s \in 1..Len(segment_scores) :
       segment_scores[s].start_time + settings.min_clip_duration
         + ANALYSIS_MODES[settings.analysis_mode].segment_duration = Duration(video)

\* floor((D - S - min_clip_duration) / segment_duration), capped by max_segments
ExpectedSegments ==
  Min(ANALYSIS_MODES[settings.analysis_mode].max_segments,
      (Duration(video) - settings.exclude_first_seconds - settings.min_clip_duration)
        \div ANALYSIS_MODES[settings.analysis_mode].segment_duration)

\* C7: the analyzer examines min(max_segments, floor((D - S - min_clip_duration)
\* / segment_duration)) segments when that is non-negative and none otherwise
\* (60 for D = 100 s, S = 0, min 3 s, segments of 1.5 s, at most 60), and never
\* produces more SegmentScores than that.
C7_SegmentCount ==
  /\ Ranked => i = Max(ExpectedSegments, 0)
  /\ Len(segment_scores) <= Max(ExpectedSegments, 0)
  /\ ( /\ Ranked
       /\ Duration(video) = Sec(100)
       /\ settings.exclude_first_seconds = 0
       /\ settings.min_clip_duration = Sec(3)
       /\ settings.analysis_mode = "precise" ) => i = 60

C7_Witness ==
  /\ Ranked
  /\ Duration(video) = Sec(100)
  /\ settings.exclude_first_seconds = 0
  /\ settings.min_clip_duration = Sec(3)
  /\ settings.analysis_mode = "precise"
  /\ i = 60
  /\ Len(segment_scores) = 60

\* C8: the list handed to the Clip Selector has, when a target identity was
\* supplied, every has_target_face segment before every other one and
\* non-increasing scores inside each of the two groups; without a target it
\* is non-increasing in score throughout.
C8_RankedOrder ==
  Ranked =>
    \A a, b \in 1..Len(segment_scores) :
      a < b =>
        /\ settings.target_face_encoding =>
             (segment_scores[b].has_target_face => segment_scores[a].has_target_face)
        /\ ~settings.target_face_encoding =>
             segment_scores[a].score >= segment_scores[b].score
        /\ segment_scores[a].has_target_face = segment_scores[b].has_target_face =>
             segment_scores[a].score >= segment_scores[b].score

C8_Witness ==
  /\ Ranked
  /\ settings.target_face_encoding
  /\ \E a, b, c \in 1..Len(segment_scores) :
       /\ a < b
       /\ b < c
       /\ segment_scores[a].has_target_face
       /\ segment_scores[b].has_target_face
       /\ segment_scores[a].score > segment_scores[b].score
       /\ ~segment_scores[c].has_target_face
       /\ segment_scores[c].score > segment_scores[b].score

\* C9: a segment with has_target_face has the mean of its per-frame scores
\* times 2.0, once, whatever the number of sampled frames that matched the
\* target; a segment without has the mean itself.
C9_BoostOnce ==
  \A s \in 1..Len(segment_scores) :
    segment_scores[s].scores_in_segment # <<>> =>
      segment_scores[s].score =
        IF segment_scores[s].has_target_face
        THEN Mean(segment_scores[s].scores_in_segment) * 2
        ELSE Mean(segment_scores[s].scores_in_segment)

C9_Witness ==
  \E s, t \in 1..Len(segment_scores) :
    /\ segment_scores[s].hits >= 2
    /\ segment_scores[t].hits = 1
    /\ Len(segment_scores[t].scores_in_segment) >= 2

AllTextCalls ==
  UNION { { segment_scores[s].text_calls[c] :
              c \in 1..Len(segment_scores[s].text_calls) } :
          s \in 1..Len(segment_scores) }

TextCallsAgree(expected) ==
  \A call \in AllTextCalls :
    \A pair \in expected : call[1] = pair[1] => call[2] = pair[2]

TextCallsMonotone ==
  /\ \A call \in AllTextCalls : call[2] \in {10, 5, 1}
  /\ \A c, d \in AllTextCalls : c[1] <= d[1] => c[2] >= d[2]

\* C10 as stated: 0.1, 0.25, 0.35 give 1.0, 0.5, 0.1; exactly 0.3 gives 0.1 and
\* exactly 0.2 gives 0.5; the multiplier is non-increasing and in {1.0, 0.5, 0.1}.
C10_InclusiveBoundaries ==
  /\ TextCallsAgree({<<10, 10>>, <<25, 5>>, <<35, 1>>, <<30, 1>>, <<20, 5>>})
  /\ TextCallsMonotone

\* C10 amended: 0.1, 0.25, 0.35 give 1.0, 0.5, 0.1; the thresholds are strict,
\* so exactly 0.3 gives 0.5 and exactly 0.2 gives 1.0; the multiplier is
\* non-increasing and in {1.0, 0.5, 0.1}.
C10_StrictBoundaries ==
  /\ TextCallsAgree({<<10, 10>>, <<25, 5>>, <<35, 1>>, <<30, 5>>, <<20, 10>>})
  /\ TextCallsMonotone

C10_Witness ==
  /\ <<30, 5>> \in AllTextCalls
  /\ <<20, 10>> \in AllTextCalls

\* ---------------------------------------------------------- video_assembler
\* A name without a file behind it: hasattr(clip, 'filename') is false
NoFile == << >>

\* A file the user uploaded, with what it shows and how long it is
SourceFile(content, d) == << "source", content, d >>

\* A MoviePy clip handle: content is the sequence of source clips it shows,
\* duration is in twelfths of a second
Handle(id, content, d, filename, audio) ==
  [ id |-> id, content |-> content, duration |-> d, filename |-> filename,
    audio |-> audio ]

\* materialize_clip, line 81: the temp file's path is the name and the clock
TempPath(name, ms) == << "materialized", name, ms >>

\* What MoviePy, ffmpeg and the disk can answer during one materialize_clip
Outcomes ==
  [ probe : {"frame", "none", "raises"}, reopen : {"ok", "raises"},
    write : {"ok", "small", "missing", "raises"}, reload : {"ok", "raises"},
    duration_kept : BOOLEAN, final_probe : {"frame", "none", "raises"} ]

AllGood ==
  [ probe |-> "frame", reopen |-> "ok", write |-> "ok", reload |-> "ok",
    duration_kept |-> TRUE, final_probe |-> "frame" ]

World == [ files |-> files, closed |-> closed, next_id |-> next_id, now |-> now ]

ReloadedValidAnyDuration(d, probe) == probe = "frame"

\* lines 133-151: the reloaded clip must last and must give its first frame
ReloadedValid(d, probe) == d > 0 /\ probe = "frame"

\* materialize_clip, lines 63-163. w is the world before the call; the result
\* is the world after it with the value returned (ret), the temp path and
\* whether write_videofile put anything there (wrote)
materialize_clip(clip, name, o, w) ==
  LET temp_path == TempPath(name, w.now)
      reopened == clip # None /\ o.probe = "none" /\ clip.filename # NoFile
      source == IF reopened
                THEN Handle(w.next_id, clip.filename[2], clip.filename[3],
                            clip.filename, TRUE)
                ELSE clip
      nid == IF reopened THEN w.next_id + 1 ELSE w.next_id
      written == w.files \cup {temp_path}
      removed == w.files \ {temp_path}
      done == w.closed \cup {source.id}
      reloaded == Handle(nid, source.content,
                         IF o.duration_kept THEN source.duration ELSE 0,
                         temp_path, FALSE)
      result(r, fs, cl, id, wr) ==
        [ ret |-> r, files |-> fs, closed |-> cl, next_id |-> id,
          now |-> w.now + 1, temp_path |-> temp_path, wrote |-> wr ]
  IN  IF clip = None THEN result(None, w.files, w.closed, w.next_id, FALSE)
      ELSE IF o.probe = "raises" THEN result(None, w.files, w.closed, nid, FALSE)
      ELSE IF o.probe = "none" /\ clip.filename = NoFile
        THEN result(None, w.files, w.closed, nid, FALSE)
      ELSE IF o.probe = "none" /\ o.reopen = "raises"
        THEN result(None, w.files, w.closed, w.next_id, FALSE)
      ELSE IF o.write = "raises" THEN result(None, removed, w.closed, nid, TRUE)
      ELSE IF o.write = "missing" THEN result(None, w.files, done, nid, FALSE)
      ELSE IF o.write = "small" THEN result(None, written, done, nid, TRUE)
      ELSE IF o.reload = "raises" THEN result(None, removed, done, nid, TRUE)
      ELSE IF ~ReloadedValid(reloaded.duration, o.final_probe)
        THEN result(None, removed, done \cup {reloaded.id}, nid + 1, TRUE)
      ELSE result(reloaded, written, done, nid + 1, TRUE)

\* The call as the log keeps it
Materialized(clip, name, o, r) ==
  [ op |-> "materialize", name |-> name, clip |-> clip, o |-> o, ret |-> r.ret,
    temp_path |-> r.temp_path, wrote |-> r.wrote ]

\* materialize_clip on its own: no clip, a clip built in memory, a cut of an
\* uploaded file, and a clip that was materialized before
MaterializeInputs ==
  { None,
    Handle(0, << 1 >>, Sec(3), NoFile, FALSE),
    Handle(0, << 1 >>, Sec(3), SourceFile(<< 1 >>, Sec(20)), TRUE),
    Handle(0, << 1, 2 >>, Sec(6), TempPath("clip_1", 0), FALSE) }

\* The analyzer has nothing to do while the assembler runs
AnalyzerIdle ==
  /\ video = [fps |-> 2, total_frames |-> 0, footage |-> DefaultFootage]
  /\ settings = DEFAULT_SETTINGS
  /\ rng = [p \in 1..1 |-> 0]
  /\ Fresh

analyzer == << settings, video, rng, rng_pos, pc, duration, num_segments, i,
               prev_frame, segment_scores, min_distance, k, clips, used_times, e,
               extracted >>

InitMaterialize ==
  /\ AnalyzerIdle
  /\ apc = "materialize_clip"
  /\ \E c \in MaterializeInputs, n \in {"clip", "final_concatenated"} :
       /\ args = [clip |-> c, name |-> n]
       /\ files = IF c # None /\ c.filename # NoFile /\ c.filename[1] = "materialized"
                  THEN {c.filename}
                  ELSE {}
  /\ work = <<>>
  /\ ret = Pending
  /\ closed = {}
  /\ next_id = 1
  /\ now = 1
  /\ log = <<>>

\* One call of materialize_clip, under every answer of the environment
MaterializeClip ==
  /\ apc = "materialize_clip"
  /\ \E o \in Outcomes :
       LET r == materialize_clip(args.clip, args.name, o, World)
       IN /\ ret' = r.ret
          /\ files' = r.files
          /\ closed' = r.closed
          /\ next_id' = r.next_id
          /\ now' = r.now
          /\ log' = Append(log, Materialized(args.clip, args.name, o, r))
  /\ apc' = "done"
  /\ UNCHANGED << analyzer, args, work >>

NextMaterialize == MaterializeClip

SpecMaterialize == InitMaterialize /\ [][NextMaterialize]_vars

\* C11: when materialize_clip returns a clip, the clip is a handle opened anew
\* on the temp file it wrote (never the handle it was given), it lasts longer
\* than zero and its first frame was read; every other path returns None.
C11_ReturnsFreshValidated ==
  (apc = "done" /\ ret # None) =>
     /\ ret.filename = log[1].temp_path
     /\ ret.filename \in files
     /\ ret.id # args.clip.id
     /\ ret.id \notin closed
     /\ ret.duration > 0
     /\ log[1].o.final_probe = "frame"
     /\ log[1].o.write = "ok"

C11_Witness == apc = "done" /\ ret # None /\ args.clip.filename # NoFile

\* C12: when materialize_clip returns None after write_videofile put something
\* at the temp path, the temp file is gone at the return, on every failing
\* path: file too small, invalid duration, failed probe, exception.
C12_NoPartialFileLeft ==
  (apc = "done" /\ ret = None /\ log[1].wrote) => log[1].temp_path \notin files

\* ------------------------------------- safe_concatenate_with_materialization
MaxClips == 4

\* f"clip_{i+1}", f"pair_{i//2 + 1}"
ClipName(prefix, n) == prefix \o "_" \o ToString(n)

\* The answers kept when materialize_clip is one step of a longer call: all
\* good, an undersized file, a first probe that raises
SomeOutcomes ==
  { AllGood, [AllGood EXCEPT !.write = "small"], [AllGood EXCEPT !.probe = "raises"] }

\* The answers of concatenate_videoclips: a clip, None, an exception
ConcatOutcomes == {"clip", "none", "raises"}

RECURSIVE ContentOf(_)
ContentOf(cs) == IF cs = << >> THEN << >> ELSE Head(cs).content \o ContentOf(Tail(cs))

RECURSIVE DurationOf(_)
DurationOf(cs) == IF cs = << >> THEN 0 ELSE Head(cs).duration + DurationOf(Tail(cs))

Range(s) == { s[j] : j \in 1..Len(s) }

Ids(cs) == { cs[j].id : j \in 1..Len(cs) }

\* MoviePy's concatenate_videoclips when it answers with a clip
concatenate_videoclips(cs, id) ==
  Handle(id, ContentOf(cs), DurationOf(cs), NoFile, \E j \in 1..Len(cs) : cs[j].audio)

\* The call as the log keeps it
Concatenated(kind, cs, outcome, id) ==
  [ op |-> "concatenate", kind |-> kind, clips |-> cs, outcome |-> outcome,
    ret |-> IF outcome = "clip" THEN concatenate_videoclips(cs, id) ELSE None ]

KeepOrPassThrough(list, clip, materialized) ==
  IF materialized # None THEN Append(list, materialized) ELSE Append(list, clip)

\* lines 195-199: a clip that failed to materialize is left out
KeepMaterialized(list, clip, materialized) ==
  IF materialized # None THEN Append(list, materialized) ELSE list

PairOfSwapped(cs, j) == << cs[j + 2], cs[j + 1] >>

\* line 259: pair = [materialized_clips[i], materialized_clips[i+1]]
PairOf(cs, j) == << cs[j + 1], cs[j + 2] >>

\* The world after a call of materialize_clip
Becomes(r) ==
  /\ files' = r.files
  /\ closed' = r.closed
  /\ next_id' = r.next_id
  /\ now' = r.now

ConcatLocals ==
  [ materialized_clips |-> << >>, i |-> 0, new_clips |-> << >>, concatenated |-> None ]

InitConcat ==
  /\ AnalyzerIdle
  /\ apc = "safe_concatenate"
  /\ \E n \in 0..MaxClips :
       /\ args = [ clips |-> [j \in 1..n |-> Handle(j, << j >>, Sec(2), NoFile, FALSE)],
                   method |-> "compose" ]
       /\ next_id = n + 1
  /\ work = ConcatLocals
  /\ ret = Pending
  /\ files = {}
  /\ closed = {}
  /\ now = 1
  /\ log = << >>

\* lines 180-192: no clip, one clip, or the start of the loop over the clips
ConcatBegin ==
  /\ apc = "safe_concatenate"
  /\ IF args.clips = << >>
     THEN /\ ret' = None
          /\ apc' = "done"
          /\ UNCHANGED << files, closed, next_id, now, log >>
     ELSE IF Len(args.clips) = 1
     THEN \E o \in SomeOutcomes :
            LET r == materialize_clip(args.clips[1], "single_clip", o, World)
            IN /\ Becomes(r)
               /\ ret' = r.ret
               /\ log' = Append(log, Materialized(args.clips[1], "single_clip", o, r))
               /\ apc' = "done"
     ELSE /\ apc' = "materialize_inputs"
          /\ UNCHANGED << ret, files, closed, next_id, now, log >>
  /\ UNCHANGED << analyzer, args, work >>

\* lines 194-199: one iteration of the loop over the input clips
MaterializeInput ==
  /\ apc = "materialize_inputs"
  /\ work.i < Len(args.clips)
  /\ \E o \in SomeOutcomes :
       LET clip == args.clips[work.i + 1]
           name == ClipName("clip", work.i + 1)
           r == materialize_clip(clip, name, o, World)
       IN /\ Becomes(r)
          /\ log' = Append(log, Materialized(clip, name, o, r))
          /\ work' = [work EXCEPT !.i = @ + 1,
                        !.materialized_clips = KeepMaterialized(@, clip, r.ret)]
  /\ UNCHANGED << analyzer, args, apc, ret >>

\* lines 201-219 and 243-246: nothing materialized, or the one bulk
\* concatenation, which answers a clip, None or an exception
BulkConcatenate ==
  /\ apc = "materialize_inputs"
  /\ work.i = Len(args.clips)
  /\ IF work.materialized_clips = << >>
     THEN /\ ret' = None
          /\ apc' = "done"
          /\ UNCHANGED << work, closed, next_id, log >>
     ELSE \E outcome \in ConcatOutcomes :
            /\ log' = Append(log, Concatenated("bulk", work.materialized_clips,
                                                outcome, next_id))
            /\ CASE outcome = "clip" ->
                      /\ work' = [work EXCEPT !.concatenated =
                                    concatenate_videoclips(work.materialized_clips, next_id)]
                      /\ next_id' = next_id + 1
                      /\ apc' = "materialize_result"
                      /\ UNCHANGED << ret, closed >>
                 [] outcome = "none" ->
                      /\ closed' = closed \cup Ids(work.materialized_clips)
                      /\ ret' = None
                      /\ apc' = "done"
                      /\ UNCHANGED << work, next_id >>
                 [] outcome = "raises" ->
                      /\ apc' = IF Len(work.materialized_clips) > 2
                                THEN "pairs"
                                ELSE "last_resort"
                      /\ work' = [work EXCEPT !.i = 0, !.new_clips = << >>]
                      /\ UNCHANGED << ret, closed, next_id >>
  /\ UNCHANGED << analyzer, args, files, now >>

\* lines 223-241: materialize the bulk result, close the intermediate clips and
\* remove their files, return what the materialization returned
MaterializeResult ==
  /\ apc = "materialize_result"
  /\ \E o \in SomeOutcomes :
       LET r == materialize_clip(work.concatenated, "final_concatenated", o, World)
           intermediate == { m.filename : m \in Range(work.materialized_clips) }
       IN /\ files' = r.files \ intermediate
          /\ closed' = r.closed \cup Ids(work.materialized_clips)
                         \cup {work.concatenated.id}
          /\ next_id' = r.next_id
          /\ now' = r.now
          /\ log' = Append(log, Materialized(work.concatenated, "final_concatenated",
                                             o, r))
          /\ ret' = r.ret
  /\ apc' = "done"
  /\ UNCHANGED << analyzer, args, work >>

\* lines 254-275: one iteration of the loop over the pairs of a round; the
\* odd clip left at the end is carried over as it is
PairStep ==
  /\ apc = "pairs"
  /\ work.i < Len(work.materialized_clips)
  /\ IF work.i + 1 < Len(work.materialized_clips)
     THEN \E outcome \in ConcatOutcomes, o \in SomeOutcomes :
            LET pair == PairOf(work.materialized_clips, work.i)
                name == ClipName("pair", (work.i \div 2) + 1)
                pair_concat == concatenate_videoclips(pair, next_id)
                r == materialize_clip(pair_concat, name, o,
                                      [World EXCEPT !.next_id = next_id + 1])
                call == Concatenated("pair", pair, outcome, next_id)
            IN CASE outcome = "clip" ->
                      /\ files' = r.files
                      /\ closed' = r.closed \cup {pair_concat.id} \cup Ids(pair)
                      /\ next_id' = r.next_id
                      /\ now' = r.now
                      /\ log' = log \o << call, Materialized(pair_concat, name, o, r) >>
                      /\ work' = [work EXCEPT !.i = @ + 2,
                                    !.new_clips = IF r.ret # None
                                                  THEN Append(@, r.ret)
                                                  ELSE @]
                      /\ apc' = apc
                 [] outcome = "none" ->
                      /\ closed' = closed \cup Ids(pair)
                      /\ log' = Append(log, call)
                      /\ work' = [work EXCEPT !.i = @ + 2]
                      /\ UNCHANGED << apc, files, next_id, now >>
                 [] outcome = "raises" ->
                      /\ log' = Append(log, call)
                      /\ apc' = "last_resort"
                      /\ UNCHANGED << work, files, closed, next_id, now >>
     ELSE /\ work' = [work EXCEPT !.i = @ + 1,
                        !.new_clips = Append(@, work.materialized_clips[work.i + 1])]
          /\ UNCHANGED << apc, files, closed, next_id, now, log >>
  /\ UNCHANGED << analyzer, args, ret >>

RoundResultKeepsAll(materialized_clips, new_clips) == materialized_clips \o new_clips

\* line 277: materialized_clips = new_clips
RoundResult(materialized_clips, new_clips) == new_clips

\* lines 277-281: the round is over; one clip left is the result, several
\* start another round, none leaves the loop
RoundEnd ==
  /\ apc = "pairs"
  /\ work.i >= Len(work.materialized_clips)
  /\ work' = [work EXCEPT
                !.materialized_clips = RoundResult(work.materialized_clips, work.new_clips),
                !.i = 0, !.new_clips = << >>]
  /\ IF Len(work.new_clips) = 1
     THEN /\ ret' = work.new_clips[1]
          /\ apc' = "done"
     ELSE /\ apc' = IF Len(work.new_clips) > 1 THEN "pairs" ELSE "last_resort"
          /\ ret' = ret
  /\ UNCHANGED << analyzer, args, files, closed, next_id, now, log >>

\* lines 285-292: the first clip of materialized_clips, the others closed
LastResort ==
  /\ apc = "last_resort"
  /\ IF work.materialized_clips # << >>
     THEN /\ closed' = closed \cup Ids(Tail(work.materialized_clips))
          /\ ret' = Head(work.materialized_clips)
     ELSE /\ ret' = None
          /\ closed' = closed
  /\ apc' = "done"
  /\ UNCHANGED << analyzer, args, work, files, next_id, now, log >>

NextConcat ==
  \/ ConcatBegin
  \/ MaterializeInput
  \/ BulkConcatenate
  \/ MaterializeResult
  \/ PairStep
  \/ RoundEnd
  \/ LastResort

SpecConcat == InitConcat /\ [][NextConcat]_vars

\* Positions in the log of the bulk concatenation, of the materialization of
\* its result and of the pairwise concatenations
BulkCalls ==
  { p \in 1..Len(log) : log[p].op = "concatenate" /\ log[p].kind = "bulk" }

ResultCalls ==
  { p \in 1..Len(log) : log[p].op = "materialize" /\ log[p].name = "final_concatenated" }

PairCalls ==
  { p \in 1..Len(log) : log[p].op = "concatenate" /\ log[p].kind = "pair" }

\* The log's entry p is the materialization of the input clip p
InputCall(p) ==
  /\ log[p].op = "materialize"
  /\ log[p].name = ClipName("clip", p)
  /\ log[p].clip = args.clips[p]

\* What the first n calls returned, failures left out
MaterializedInOrder(n) ==
  SelectSeq([p \in 1..n |-> log[p].ret], LAMBDA r : r # None)

SomeInputMaterialized ==
  \E p \in 1..Min(Len(log), Len(args.clips)) :
     log[p].op = "materialize" /\ log[p].ret # None

\* C13: with two input clips or more, safe_concatenate_with_materialization
\* first attempts to materialize every input clip, then concatenates once, in
\* one call, exactly the clips that materialized, in the input order, then
\* materializes the result of that call once; the bulk concatenation never
\* takes a clip that was not materialized.
C13_MaterializeThenConcatenate ==
  Len(args.clips) >= 2 =>
    /\ Cardinality(BulkCalls) <= 1
    /\ Cardinality(ResultCalls) <= 1
    /\ \A p \in BulkCalls :
         /\ p = Len(args.clips) + 1
         /\ \A q \in 1..(p - 1) : InputCall(q)
         /\ log[p].clips = MaterializedInOrder(p - 1)
         /\ log[p].clips # << >>
         /\ \A c \in Range(log[p].clips) : c \notin Range(args.clips)
    /\ \A p \in ResultCalls :
         /\ p - 1 \in BulkCalls
         /\ log[p - 1].outcome = "clip"
         /\ log[p].clip = log[p - 1].ret
    /\ (apc = "done" /\ SomeInputMaterialized) => Cardinality(BulkCalls) = 1
    /\ (apc = "done" /\ \E p \in BulkCalls : log[p].outcome = "clip")
         => Cardinality(ResultCalls) = 1

C13_Witness ==
  /\ apc = "done"
  /\ Len(args.clips) = 3
  /\ ret # None
  /\ \E p \in BulkCalls : Len(log[p].clips) = 2
  /\ ResultCalls # {}

\* The bulk concatenation raised over three materialized clips or more and
\* every pairwise concatenation and materialization after it succeeded
PairwiseSucceeded ==
  /\ \E p \in BulkCalls : log[p].outcome = "raises" /\ Len(log[p].clips) >= 3
  /\ \A p \in PairCalls : log[p].outcome = "clip" /\ log[p + 1].ret # None

\* C14: when the bulk concatenation fails over n >= 3 materialized clips and
\* every pairwise step succeeds, the tournament returns one clip that shows
\* all n clips in their original order, after n - 1 pairwise concatenations
\* of neighbours (an odd clip is carried to the next round and comes last).
C14_TournamentKeepsOrder ==
  (apc = "done" /\ PairwiseSucceeded) =>
     \A p \in BulkCalls :
        /\ ret # None
        /\ ret.content = ContentOf(log[p].clips)
        /\ ret.duration = DurationOf(log[p].clips)
        /\ Cardinality(PairCalls) = Len(log[p].clips) - 1
        /\ \A q \in PairCalls :
             \E off \in 0..Len(ret.content) :
                log[q].clips[1].content \o log[q].clips[2].content
                  = SubSeq(ret.content, off + 1, off + Len(log[q].ret.content))

C14_Witness ==
  /\ apc = "done"
  /\ PairwiseSucceeded
  /\ \E p \in BulkCalls : Len(log[p].clips) = 3
  /\ ret.content = << 1, 2, 3 >>

\* C15: whenever at least one input clip was materialized,
\* safe_concatenate_with_materialization returns a clip: when the bulk
\* concatenation, the materialization of its result or the pairwise fallback
\* fails, it returns the first materialized clip.
C15_DegradedResult ==
  (apc = "done" /\ SomeInputMaterialized) => ret # None

\* ---------------------------------------------- create_final_video_ultra_safe
MaxFinalClips == 3

\* line 462: 0.1 MB, in hundredths of a megabyte
MinOutputSize == 10

\* audio_config is None
NoAudio ==
  [ audio_path |-> FALSE, adapt_to_audio |-> FALSE, duration |-> 0, extra_seconds |-> 0 ]

\* audio_config with the length of the audio file behind audio_path
AudioConfig(adapt, d, extra) ==
  [ audio_path |-> TRUE, adapt_to_audio |-> adapt, duration |-> d, extra_seconds |-> extra ]

AudioConfigs ==
  { NoAudio, AudioConfig(FALSE, Sec(6), 0), AudioConfig(TRUE, Sec(6), Sec(1)),
    AudioConfig(TRUE, Sec(2), 0) }

\* tagline_path and the length of the file behind it
Taglines == { [exists |-> FALSE, duration |-> 0], [exists |-> TRUE, duration |-> Sec(1)] }

\* What write_videofile leaves at output_path: sizes in hundredths of a megabyte
EncodeOutcomes ==
  { [kind |-> "raises", size |-> 0], [kind |-> "missing", size |-> 0] }
    \cup { [kind |-> "written", size |-> s] :
             s \in {MinOutputSize - 1, MinOutputSize, MinOutputSize + 1} }

FinalLocals ==
  [ materialized_clips |-> << >>, i |-> 0, new_clips |-> << >>, concatenated |-> None,
    caller |-> "create_final_video_ultra_safe", clips |-> << >>, final_video |-> None ]

\* lines 321-327: random.shuffle, or the order given
Orders(a) ==
  IF a.shuffle
  THEN Permutations(1..Len(a.clips))
  ELSE { [j \in 1..Len(a.clips) |-> j] }

\* video_normalizer.prepare_clips_for_concatenation: the clips themselves when
\* compatible, normalized copies, or [] when normalization fails
prepare_clips_for_concatenation(cs, how, id) ==
  CASE how = "compatible" -> cs
    [] how = "normalized" ->
         [j \in 1..Len(cs) |-> [cs[j] EXCEPT !.id = id + j - 1]]
    [] how = "failed" -> << >>

NeedsTrimNever(a, d) == FALSE

\* lines 363-364
NeedsTrim(a, d) ==
  /\ a.output_duration # 0
  /\ ~(a.audio_config.audio_path /\ a.audio_config.adapt_to_audio)
  /\ d > a.output_duration

\* video_extractor.add_audio_to_video: with adapt_to_audio the video is looped
\* or cut to the audio's length plus extra_seconds; on failure no audio
add_audio_to_video(v, cfg, attached, id) ==
  IF ~attached
  THEN [v EXCEPT !.id = id, !.audio = FALSE]
  ELSE IF cfg.adapt_to_audio
  THEN Handle(id, v.content, cfg.duration + cfg.extra_seconds,
              IF v.duration < cfg.duration + cfg.extra_seconds THEN NoFile ELSE v.filename,
              TRUE)
  ELSE [v EXCEPT !.id = id, !.audio = TRUE]

\* video_extractor.add_tagline: the tagline (content 0) after the video, or
\* the video as it is when the tagline cannot be read
add_tagline(v, t, appended, id) ==
  IF appended
  THEN Handle(id, v.content \o << 0 >>, v.duration + t.duration, NoFile, v.audio)
  ELSE v

\* video_extractor.add_logo_overlay: a composite of the same length, or the
\* video as it is when the logo cannot be read
add_logo_overlay(v, added, id) ==
  IF added THEN Handle(id, v.content, v.duration, NoFile, v.audio) ELSE v

\* A stage of the post-assembly as the log keeps it
Staged(stage, clip, result) ==
  [ op |-> "stage", name |-> stage, clip |-> clip, ret |-> result ]

StageEndUnmaterialized(stage, clip, result, name, o, w) ==
  [ ret |-> result, files |-> w.files, closed |-> w.closed, next_id |-> w.next_id,
    now |-> w.now, events |-> << Staged(stage, clip, result) >> ]

\* What follows a stage: materialize_clip on its result after the trim (line
\* 369), the logo (380) and the tagline (405); the result of the audio stage
\* is handed on as it is (390)
StageEnd(stage, clip, result, name, o, w) ==
  IF stage = "audio"
  THEN [ ret |-> result, files |-> w.files, closed |-> w.closed,
         next_id |-> w.next_id, now |-> w.now,
         events |-> << Staged(stage, clip, result) >> ]
  ELSE LET r == materialize_clip(result, name, o, w)
       IN [ ret |-> r.ret, files |-> r.files, closed |-> r.closed,
            next_id |-> r.next_id, now |-> r.now,
            events |-> << Staged(stage, clip, result),
                          Materialized(result, name, o, r) >> ]

OutputValidInclusive(outcome) == outcome.kind = "written" /\ outcome.size >= MinOutputSize

\* lines 459-473: the encode did not raise, the file is there and above 0.1 MB
OutputValid(outcome) == outcome.kind = "written" /\ outcome.size > MinOutputSize

\* line 480: 'materialized_' in final_video.filename
IsMaterializedFile(f) == f # NoFile /\ f[1] = "materialized"

\* The world with one more handle opened
Opened(n) == [World EXCEPT !.next_id = next_id + n]

FinalArgs(n, sh, logo, audio, tagline, od) ==
  [ clips |-> [j \in 1..n |-> Handle(j, << j >>, Sec(2), NoFile, TRUE)],
    method |-> "compose", shuffle |-> sh, logo_config |-> logo,
    audio_config |-> audio, tagline |-> tagline, output_duration |-> od ]

\* Any number of clips in any order, no option: every path of the assembly
InitFinalAssembly ==
  \E n \in 0..MaxFinalClips, sh \in BOOLEAN :
     /\ args = FinalArgs(n, sh, FALSE, NoAudio, [exists |-> FALSE, duration |-> 0],
                         Sec(15))
     /\ next_id = n + 1

\* Two clips under every combination of the options
InitFinalStages ==
  /\ \E logo \in BOOLEAN, audio \in AudioConfigs, tagline \in Taglines,
        od \in {0, Sec(3)} :
       args = FinalArgs(2, FALSE, logo, audio, tagline, od)
  /\ next_id = 3

InitFinal ==
  /\ AnalyzerIdle
  /\ apc = "create_final_video_ultra_safe"
  /\ InitFinalAssembly \/ InitFinalStages
  /\ work = FinalLocals
  /\ ret = Pending
  /\ files = {}
  /\ closed = {}
  /\ now = 1
  /\ log = << >>

\* The return of False, or of True after the encode
Returns(value) ==
  /\ ret' = value
  /\ apc' = "returned"

\* lines 500-512: an exception nothing else caught: the clips are closed
Fatal ==
  /\ closed' = closed \cup Ids(work.clips)
  /\ Returns(FALSE)

\* lines 311-341: no clip, the shuffle, the preparation and the call of
\* safe_concatenate_with_materialization on the prepared clips
FinalBegin ==
  /\ apc = "create_final_video_ultra_safe"
  /\ IF args.clips = << >>
     THEN /\ Returns(FALSE)
          /\ UNCHANGED << args, work, next_id >>
     ELSE \E order \in Orders(args), how \in {"compatible", "normalized", "failed"} :
            LET shuffled == [j \in 1..Len(args.clips) |-> args.clips[order[j]]]
                prepared_clips == prepare_clips_for_concatenation(shuffled, how, next_id)
            IN /\ work' = [work EXCEPT !.clips = shuffled]
               /\ IF prepared_clips = << >>
                  THEN /\ Returns(FALSE)
                       /\ UNCHANGED << args, next_id >>
                  ELSE /\ args' = [args EXCEPT !.clips = prepared_clips]
                       /\ next_id' = IF how = "normalized"
                                     THEN next_id + Len(shuffled)
                                     ELSE next_id
                       /\ apc' = "safe_concatenate"
                       /\ ret' = ret
  /\ UNCHANGED << analyzer, files, closed, now, log >>

\* lines 343-360: safe_concatenate_with_materialization has returned
FinalValidate ==
  /\ apc = "done"
  /\ work.caller = "create_final_video_ultra_safe"
  /\ work' = [work EXCEPT !.final_video = ret]
  /\ IF ret = None
     THEN /\ Returns(FALSE)
          /\ closed' = closed
     ELSE \E probe \in {"frame", "none", "raises"} :
            IF probe = "frame"
            THEN /\ apc' = "trim"
                 /\ ret' = Pending
                 /\ closed' = closed
            ELSE /\ closed' = closed \cup {ret.id}
                 /\ Returns(FALSE)
  /\ UNCHANGED << analyzer, args, files, next_id, now, log >>

\* lines 362-371: the cut to output_duration and its materialization
FinalTrim ==
  /\ apc = "trim"
  /\ IF NeedsTrim(args, work.final_video.duration)
     THEN \E o \in SomeOutcomes :
            LET cut == [work.final_video EXCEPT !.id = next_id,
                                                !.duration = args.output_duration]
                r == StageEnd("trim", work.final_video, cut, "final_trimmed", o,
                              Opened(1))
            IN /\ Becomes(r)
               /\ log' = log \o r.events
               /\ work' = [work EXCEPT !.final_video = r.ret]
               /\ IF r.ret = None
                  THEN Returns(FALSE)
                  ELSE apc' = "logo" /\ ret' = ret
     ELSE /\ apc' = "logo"
          /\ UNCHANGED << work, ret, files, closed, next_id, now, log >>
  /\ UNCHANGED << analyzer, args >>

\* lines 373-384: the logo and its materialization, whose failure is a warning
FinalLogo ==
  /\ apc = "logo"
  /\ IF args.logo_config
     THEN \E added \in BOOLEAN, o \in SomeOutcomes :
            LET r == StageEnd("logo", work.final_video,
                              add_logo_overlay(work.final_video, added, next_id),
                              "final_with_logo", o, Opened(IF added THEN 1 ELSE 0))
            IN /\ Becomes(r)
               /\ log' = log \o r.events
               /\ work' = [work EXCEPT !.final_video = r.ret]
     ELSE UNCHANGED << work, files, closed, next_id, now, log >>
  /\ apc' = "audio"
  /\ UNCHANGED << analyzer, args, ret >>

\* lines 386-396: the audio, or without_audio; on a working clip that is None
\* both raise out of the function's body
FinalAudio ==
  /\ apc = "audio"
  /\ IF work.final_video = None
     THEN /\ Fatal
          /\ UNCHANGED << work, files, next_id, now, log >>
     ELSE /\ IF args.audio_config.audio_path
             THEN \E attached \in BOOLEAN :
                    LET r == StageEnd("audio", work.final_video,
                                      add_audio_to_video(work.final_video,
                                        args.audio_config, attached, next_id),
                                      "", AllGood, Opened(1))
                    IN /\ Becomes(r)
                       /\ log' = log \o r.events
                       /\ work' = [work EXCEPT !.final_video = r.ret]
             ELSE /\ work' = [work EXCEPT !.final_video =
                                [@ EXCEPT !.id = next_id, !.audio = FALSE]]
                  /\ next_id' = next_id + 1
                  /\ UNCHANGED << files, closed, now, log >>
          /\ apc' = "tagline"
          /\ ret' = ret
  /\ UNCHANGED << analyzer, args >>

\* lines 398-409: the tagline and its materialization, whose failure is a
\* warning
FinalTagline ==
  /\ apc = "tagline"
  /\ IF args.tagline.exists
     THEN \E appended \in BOOLEAN, o \in SomeOutcomes :
            LET r == StageEnd("tagline", work.final_video,
                              add_tagline(work.final_video, args.tagline, appended,
                                          next_id),
                              "final_with_tagline", o,
                              Opened(IF appended THEN 1 ELSE 0))
            IN /\ Becomes(r)
               /\ log' = log \o r.events
               /\ work' = [work EXCEPT !.final_video = r.ret]
     ELSE UNCHANGED << work, files, closed, next_id, now, log >>
  /\ apc' = "pre_encode"
  /\ UNCHANGED << analyzer, args, ret >>

\* lines 411-422: the probe before the encode
FinalPreEncode ==
  /\ apc = "pre_encode"
  /\ IF work.final_video = None
     THEN Fatal
     ELSE \E probe \in {"frame", "none", "raises"} :
            IF probe = "frame"
            THEN /\ apc' = "encode"
                 /\ UNCHANGED << ret, closed >>
            ELSE /\ closed' = closed \cup {work.final_video.id}
                 /\ Returns(FALSE)
  /\ UNCHANGED << analyzer, args, work, files, next_id, now, log >>

\* lines 424-498: the one write_videofile, the check of the output file, the
\* finally block and the return
FinalEncode ==
  /\ apc = "encode"
  /\ \E outcome \in EncodeOutcomes :
       /\ log' = Append(log, [ op |-> "encode", clip |-> work.final_video,
                               outcome |-> outcome ])
       /\ Returns(OutputValid(outcome))
  /\ closed' = closed \cup {work.final_video.id} \cup Ids(work.clips)
  /\ files' = IF IsMaterializedFile(work.final_video.filename)
              THEN files \ {work.final_video.filename}
              ELSE files
  /\ UNCHANGED << analyzer, args, work, next_id, now >>

NextFinal ==
  \/ FinalBegin
  \/ ConcatBegin
  \/ MaterializeInput
  \/ BulkConcatenate
  \/ MaterializeResult
  \/ PairStep
  \/ RoundEnd
  \/ LastResort
  \/ FinalValidate
  \/ FinalTrim
  \/ FinalLogo
  \/ FinalAudio
  \/ FinalTagline
  \/ FinalPreEncode
  \/ FinalEncode

SpecFinal == InitFinal /\ [][NextFinal]_vars

StageCalls == { p \in 1..Len(log) : log[p].op = "stage" }

EncodeCalls == { p \in 1..Len(log) : log[p].op = "encode" }

\* The log's entry after p is the materialization of what stage p produced
RematerializedAfter(p) ==
  /\ p < Len(log)
  /\ log[p + 1].op = "materialize"
  /\ log[p + 1].clip = log[p].ret

C17_TrueOnlyAfterOneValidEncode ==
  /\ Cardinality(EncodeCalls) <= 1
  /\ apc = "returned" =>
       (ret = TRUE <=> \E p \in EncodeCalls :
                          /\ log[p].outcome.kind = "written"
                          /\ log[p].outcome.size > MinOutputSize)

C17_Witness ==
  /\ apc = "returned"
  /\ ret = TRUE
  /\ \E p \in EncodeCalls : log[p].outcome.size = MinOutputSize + 1

\* C18: on every return of create_final_video_ultra_safe every input clip
\* handle and the working clip have been closed.
C18_CleanupOnEveryReturn ==
  apc = "returned" =>
     /\ Ids(work.clips) \subseteq closed
     /\ work.final_video # None => work.final_video.id \in closed

\* The length the tagline adds, and whether the video follows the audio
TaglineDuration == IF args.tagline.exists THEN args.tagline.duration ELSE 0

AdaptToAudio == args.audio_config.audio_path /\ args.audio_config.adapt_to_audio

\* C19: the encoded video is never longer than output_duration, whatever the
\* optional stages (logo, audio with or without adapt_to_audio, tagline).
C19_WithinOutputDuration ==
  \A p \in EncodeCalls :
     args.output_duration # 0 => log[p].clip.duration <= args.output_duration

\* C19, amended: without adapt_to_audio the encoded video is at most
\* output_duration plus the tagline's length (output_duration when there is no
\* tagline); with adapt_to_audio the cut to output_duration is skipped, and a
\* video whose audio was attached lasts the audio's length plus extra_seconds,
\* plus the tagline when appended.
C19_WithinOutputDurationAndTagline ==
  \A p \in EncodeCalls :
     args.output_duration # 0 =>
        IF AdaptToAudio
        THEN \A q \in StageCalls :
                (log[q].name = "audio" /\ log[q].ret.audio) =>
                   LET target == args.audio_config.duration
                                   + args.audio_config.extra_seconds
                   IN log[p].clip.duration \in {target, target + TaglineDuration}
        ELSE log[p].clip.duration <= args.output_duration + TaglineDuration

C19_Witness ==
  /\ apc = "returned"
  /\ ret = TRUE
  /\ ~AdaptToAudio
  /\ \E p \in EncodeCalls :
        log[p].clip.duration = args.output_duration + TaglineDuration
  /\ \E q \in StageCalls : log[q].name = "trim"
  /\ \E q \in StageCalls : log[q].name = "tagline"

\* ------------------------------------------------------- video_normalizer
\* Widths and heights of the frames, in pixels
Sides == {2, 360, 608, 720, 1000, 1080, 1280, 1920, 2400}

\* VIDEO_FORMAT's width and height, and another 9:16 size
TargetSizes == { << 1080, 1920 >>, << 720, 1280 >> }

\* A clip as normalize_clip_size sees it: its frame size and what was done
SizedClip(w, h) == [ size |-> << w, h >>, ops |-> << >> ]

\* MoviePy's clip.crop and clip.resize
crop(clip, x1, x2, y1, y2) ==
  [clip EXCEPT !.size = << x2 - x1, y2 - y1 >>, !.ops = Append(@, "crop")]

resize(clip, new_size) ==
  [clip EXCEPT !.size = new_size, !.ops = Append(@, "resize")]

\* line 39: abs(current_ratio - target_ratio) < 0.1, in whole numbers
RatiosClose(w, h, tw, th) == 10 * Abs((w * th) - (tw * h)) < h * th

normalize_clip_size_always_resized(clip, target_size) == resize(clip, target_size)

\* normalize_clip_size, lines 12-55
normalize_clip_size(clip, target_size) ==
  LET target_width == target_size[1]
      target_height == target_size[2]
      current_width == clip.size[1]
      current_height == clip.size[2]
      new_width == IntDiv(current_height * target_width, target_height)
      x_start == (current_width - new_width) \div 2
      new_height == IntDiv(current_width * target_height, target_width)
      y_start == (current_height - new_height) \div 2
  IN  IF clip.size = target_size THEN clip
      ELSE IF RatiosClose(current_width, current_height, target_width, target_height)
        THEN resize(clip, target_size)
      ELSE IF current_width * target_height > target_width * current_height
        THEN resize(crop(clip, x_start, x_start + new_width, 0, current_height),
                    target_size)
      ELSE resize(crop(clip, 0, current_width, y_start, y_start + new_height),
                  target_size)

InitNormalize ==
  /\ AnalyzerIdle
  /\ apc = "normalize_clip_size"
  /\ \E w \in Sides, h \in Sides, t \in TargetSizes :
       args = [ clip |-> SizedClip(w, h), target_size |-> t ]
  /\ work = << >>
  /\ ret = Pending
  /\ files = {}
  /\ closed = {}
  /\ next_id = 1
  /\ now = 0
  /\ log = << >>

\* One call of normalize_clip_size
NormalizeClipSize ==
  /\ apc = "normalize_clip_size"
  /\ ret' = normalize_clip_size(args.clip, args.target_size)
  /\ apc' = "normalized"
  /\ UNCHANGED << analyzer, args, work, files, closed, next_id, now, log >>

\* A second call, on what the first call returned
NormalizeAgain ==
  /\ apc = "normalized"
  /\ work' = << normalize_clip_size(ret, args.target_size) >>
  /\ apc' = "normalized_again"
  /\ UNCHANGED << analyzer, args, ret, files, closed, next_id, now, log >>

NextNormalize ==
  \/ NormalizeClipSize
  \/ NormalizeAgain

SpecNormalize == InitNormalize /\ [][NextNormalize]_vars

MaxBatchClips == 3

\* VIDEO_FORMAT['fps'], and the tolerance of line 168
TargetFps == 30

FpsTolerance == 1

\* VIDEO_FORMAT's width and height
TargetSize == << 1080, 1920 >>

\* A clip as the normalizer sees it: frame size, frame rate, audio track and
\* what get_frame(0) answers
MediaClip(size, fps, audio, probe) ==
  [ size |-> size, ops |-> << >>, fps |-> fps, audio |-> audio, probe |-> probe ]

\* Clips of three sizes and three frame rates with and without audio, and two
\* clips whose first frame cannot be read
MediaClips ==
  { MediaClip(s, f, a, "frame") :
      s \in {TargetSize, << 720, 1280 >>, << 1920, 1080 >>},
      f \in {TargetFps - 1, TargetFps, TargetFps + 1}, a \in BOOLEAN }
    \cup { MediaClip(TargetSize, TargetFps, FALSE, p) : p \in {"none", "raises"} }

FpsCompatibleExact(clip_fps, ref_fps) == clip_fps = ref_fps

\* line 168: not (abs(clip_fps - ref_fps) > 1)
FpsCompatible(clip_fps, ref_fps) == Abs(clip_fps - ref_fps) <= FpsTolerance

\* verify_clips_compatibility, lines 134-193: the first clip is the reference
verify_clips_compatibility(cs) ==
  IF cs = << >>
  THEN FALSE
  ELSE \A j \in 1..Len(cs) :
          /\ cs[j].size = cs[1].size
          /\ FpsCompatible(cs[j].fps, cs[1].fps)
          /\ cs[j].probe = "frame"

set_fps(clip, fps) == [clip EXCEPT !.fps = fps]

without_audio(clip) == [clip EXCEPT !.audio = FALSE]

\* normalize_clips_batch, lines 93-105: one clip to the target size and frame
\* rate, without audio
NormalizedClip(clip) ==
  LET sized == normalize_clip_size(clip, TargetSize)
      timed == IF clip.fps # TargetFps THEN set_fps(sized, TargetFps) ELSE sized
  IN  IF timed.audio THEN without_audio(timed) ELSE timed

\* normalize_clips_batch, lines 58-131: the clips that pass the checks
RECURSIVE normalize_clips_batch(_)
normalize_clips_batch(cs) ==
  IF cs = << >>
  THEN << >>
  ELSE LET normalized == NormalizedClip(Head(cs))
           rest == normalize_clips_batch(Tail(cs))
       IN  IF normalized.size = TargetSize /\ normalized.probe = "frame"
           THEN << normalized >> \o rest
           ELSE rest

PreparedAlwaysNormalized(cs) ==
  IF verify_clips_compatibility(normalize_clips_batch(cs))
  THEN normalize_clips_batch(cs)
  ELSE << >>

\* prepare_clips_for_concatenation, lines 196-223
PreparedClips(cs) ==
  IF verify_clips_compatibility(cs)
  THEN cs
  ELSE IF verify_clips_compatibility(normalize_clips_batch(cs))
  THEN normalize_clips_batch(cs)
  ELSE << >>

InitPrepare ==
  /\ AnalyzerIdle
  /\ apc = "verify_clips_compatibility"
  /\ \E n \in 0..MaxBatchClips : \E cs \in [1..n -> MediaClips] :
       args = [ clips |-> cs ]
  /\ work = << >>
  /\ ret = Pending
  /\ files = {}
  /\ closed = {}
  /\ next_id = 1
  /\ now = 0
  /\ log = << >>

\* One call of verify_clips_compatibility
VerifyClipsCompatibility ==
  /\ apc = "verify_clips_compatibility"
  /\ ret' = [ compatible |-> verify_clips_compatibility(args.clips) ]
  /\ apc' = "prepare_clips_for_concatenation"
  /\ UNCHANGED << analyzer, args, work, files, closed, next_id, now, log >>

\* One call of prepare_clips_for_concatenation on the same clips
PrepareClips ==
  /\ apc = "prepare_clips_for_concatenation"
  /\ work' = PreparedClips(args.clips)
  /\ apc' = "prepared"
  /\ UNCHANGED << analyzer, args, ret, files, closed, next_id, now, log >>

NextPrepare ==
  \/ VerifyClipsCompatibility
  \/ PrepareClips

SpecPrepare == InitPrepare /\ [][NextPrepare]_vars

Verified == apc \in {"prepare_clips_for_concatenation", "prepared"}

SameResolution == \A j \in 1..Len(args.clips) : args.clips[j].size = args.clips[1].size

AllProbesPass == \A j \in 1..Len(args.clips) : args.clips[j].probe = "frame"

\* C21: verify_clips_compatibility returns True exactly when the clips share
\* one resolution, any two of their frame rates are within 1 of each other and
\* every clip gives its first frame; it returns False for an empty list.
C21_PairwiseFrameRates ==
  Verified =>
    (ret.compatible <=>
       /\ args.clips # << >>
       /\ SameResolution
       /\ AllProbesPass
       /\ \A a \in 1..Len(args.clips), b \in 1..Len(args.clips) :
             Abs(args.clips[a].fps - args.clips[b].fps) <= 1)

\* C21, amended: the frame rates are compared with the first clip's only:
\* True exactly when the clips share one resolution, each frame rate is within
\* 1 of the first clip's and every clip gives its first frame; False for an
\* empty list.
C21_FrameRatesAgainstFirst ==
  Verified =>
    (ret.compatible <=>
       /\ args.clips # << >>
       /\ SameResolution
       /\ AllProbesPass
       /\ \A a \in 1..Len(args.clips) :
             Abs(args.clips[a].fps - args.clips[1].fps) <= 1)

C21_Witness ==
  /\ Verified
  /\ ret.compatible
  /\ \E a \in 1..Len(args.clips), b \in 1..Len(args.clips) :
        args.clips[a].fps - args.clips[b].fps = 2

AtTarget(clip) == clip.size = TargetSize /\ clip.fps = TargetFps /\ ~clip.audio

\* C29: every non-empty list prepare_clips_for_concatenation returns holds
\* only clips at 1080x1920, at the target frame rate and without audio, also
\* when the clips were compatible and normalization was skipped.
C29_PreparedAtTarget ==
  (apc = "prepared" /\ work # << >>) => \A c \in Range(work) : AtTarget(c)

\* C29, amended: a non-empty list returned after normalization holds only
\* clips at 1080x1920, at the target frame rate and without audio; when the
\* clips were compatible, normalization is skipped and the list returned is
\* the input as it came, whatever its size, frame rate and audio.
C29_PreparedAtTargetWhenNormalized ==
  (apc = "prepared" /\ work # << >>) =>
     IF ret.compatible
     THEN work = args.clips
     ELSE \A c \in Range(work) : AtTarget(c)

C29_Witness ==
  /\ apc = "prepared"
  /\ work # << >>
  /\ ~ret.compatible
  /\ \E j \in 1..Len(args.clips) :
        args.clips[j].size = << 1920, 1080 >> /\ args.clips[j].audio
  /\ \E c \in Range(work) : c.ops = << "crop", "resize" >>

\* ------------------------------------------------ sessions and temp files
MaxMs == 2

\* Two browser sessions served by the same process
Sessions == {"a", "b"}

\* tempfile.gettempdir(), and the directory tempfile.mkdtemp() made for a
\* session (utils.create_temp_directory)
GetTempDir == << "tmp" >>

SessionDir(s) == << "tmp", s >>

\* A file saved in a directory
FileIn(dir, name) == << dir, name >>

\* The directory a path is in: materialize_clip's paths are joined to
\* tempfile.gettempdir() (line 81)
Directory(path) == IF Len(path) = 2 THEN path[1] ELSE GetTempDir

\* A session that is not materializing
SessionIdle(held) == [ pc |-> "idle", name |-> "", temp_path |-> << >>, held |-> held ]

InitSessions ==
  /\ AnalyzerIdle
  /\ apc = "sessions"
  /\ args = [s \in Sessions |-> [temp_dir |-> SessionDir(s)]]
  /\ work = [s \in Sessions |-> SessionIdle({})]
  /\ ret = Pending
  /\ files = {}
  /\ closed = {}
  /\ next_id = 1
  /\ now = 0
  /\ log = << >>

\* The clock moves on by a millisecond
Tick ==
  /\ now < MaxMs
  /\ now' = now + 1
  /\ UNCHANGED << analyzer, apc, args, work, ret, files, closed, next_id, log >>

\* materialize_clip, line 81, in one session, on the first clip of a run: the
\* path is fixed
SessionBegin(s) ==
  /\ work[s].pc = "idle"
  /\ LET name == ClipName("clip", 1)
     IN work' = [work EXCEPT ![s].pc = "begun", ![s].name = name,
                             ![s].temp_path = TempPath(name, now)]
  /\ UNCHANGED << analyzer, apc, args, ret, files, closed, next_id, now, log >>

\* lines 102-112: write_videofile creates or overwrites the file
SessionWrite(s) ==
  /\ work[s].pc = "begun"
  /\ files' = files \cup {work[s].temp_path}
  /\ work' = [work EXCEPT ![s].pc = "written"]
  /\ UNCHANGED << analyzer, apc, args, ret, closed, next_id, now, log >>

\* lines 118-154: the file is reopened and the handle returned, or the call
\* fails and removes the file
SessionReturn(s) ==
  /\ work[s].pc = "written"
  /\ \E valid \in BOOLEAN :
       IF valid /\ work[s].temp_path \in files
       THEN /\ work' = [work EXCEPT ![s] = SessionIdle(work[s].held
                                                         \cup {work[s].temp_path})]
            /\ files' = files
       ELSE /\ work' = [work EXCEPT ![s] = SessionIdle(work[s].held)]
            /\ files' = files \ {work[s].temp_path}
  /\ UNCHANGED << analyzer, apc, args, ret, closed, next_id, now, log >>

\* safe_concatenate_with_materialization, lines 228-236: a handle is closed
\* and its file removed
SessionRelease(s) ==
  /\ work[s].pc = "idle"
  /\ \E path \in work[s].held :
       /\ work' = [work EXCEPT ![s].held = @ \ {path}]
       /\ files' = files \ {path}
  /\ UNCHANGED << analyzer, apc, args, ret, closed, next_id, now, log >>

NextSessions ==
  \/ Tick
  \/ \E s \in Sessions : SessionBegin(s)
  \/ \E s \in Sessions : SessionWrite(s)
  \/ \E s \in Sessions : SessionReturn(s)
  \/ \E s \in Sessions : SessionRelease(s)

SpecSessions == InitSessions /\ [][NextSessions]_vars

\* C22: two sessions never materialize to the same temp path: the files of a
\* session are in its own temporary directory, so a session never overwrites
\* or deletes a file another session is using.
C22_SessionsApart ==
  /\ \A s \in Sessions : \A path \in work[s].held :
        Directory(path) = args[s].temp_dir
  /\ \A s \in Sessions, t \in Sessions : s # t => work[s].held \cap work[t].held = {}
  /\ \A s \in Sessions, t \in Sessions :
        (s # t /\ work[s].pc = "written") => work[s].temp_path \notin work[t].held
  /\ \A s \in Sessions : work[s].held \subseteq files

\* utils.cleanup_temp_files, lines 31-47: shutil.rmtree(temp_dir)
cleanup_temp_files(temp_dir, fs) == { f \in fs : Directory(f) # temp_dir }

\* A run of the assembler in a session whose directory holds the uploaded
\* videos, then the cleanup of upload_video_mixer.py, line 454
InitRun ==
  /\ AnalyzerIdle
  /\ apc = "create_final_video_ultra_safe"
  /\ InitFinalAssembly
  /\ work = FinalLocals
  /\ ret = Pending
  /\ files = { FileIn(SessionDir("a"), "video_1.mp4") }
  /\ closed = {}
  /\ now = 1
  /\ log = << >>

CleanupTempFiles ==
  /\ apc = "returned"
  /\ files' = cleanup_temp_files(SessionDir("a"), files)
  /\ apc' = "cleaned"
  /\ UNCHANGED << analyzer, args, work, ret, closed, next_id, now, log >>

NextRun ==
  \/ NextFinal
  \/ CleanupTempFiles

SpecRun == InitRun /\ [][NextRun]_vars

\* C23: after a run of the assembler, whichever path it took, and after
\* cleanup_temp_files on the session directory, no materialized temp file of
\* the run is left on disk.
C23_NoMaterializedFileLeft ==
  apc = "cleaned" => { f \in files : Directory(f) = GetTempDir } = {}

\* ------------------------------------- video_extractor.create_final_video
MaxInputClips == 11

\* lines 528 and 541
MAX_CLIPS_RAILWAY == 6

MAX_CLIPS_LOCAL == 10

Reverse(s) == [j \in 1..Len(s) |-> s[Len(s) + 1 - j]]

\* random.shuffle: three of the orders it can leave a list in
Shuffles(s) ==
  { s, Reverse(s), IF s = << >> THEN s ELSE Append(Tail(s), Head(s)) }

\* smart_shuffle_clips, lines 899-902: the clips at position i of each video
RECURSIVE RoundOf(_, _)
RoundOf(lists, idx) ==
  IF lists = << >>
  THEN << >>
  ELSE (IF idx <= Len(Head(lists)) THEN << Head(lists)[idx] >> ELSE << >>)
         \o RoundOf(Tail(lists), idx)

RECURSIVE Alternate(_, _, _)
Alternate(lists, idx, max_clips) ==
  IF idx > max_clips
  THEN << >>
  ELSE RoundOf(lists, idx) \o Alternate(lists, idx + 1, max_clips)

RECURSIVE MaxLen(_)
MaxLen(lists) ==
  IF lists = << >> THEN 0 ELSE Max(Len(Head(lists)), MaxLen(Tail(lists)))

\* smart_shuffle_clips, lines 878-905, on the lists once each was shuffled
smart_shuffle_clips(video_clip_lists) ==
  Alternate(video_clip_lists, 1, MaxLen(video_clip_lists))

\* lines 523-545: the cap of the profile on the clips given
Truncated(cs, railway) ==
  LET cap == IF railway THEN MAX_CLIPS_RAILWAY ELSE MAX_CLIPS_LOCAL
  IN  IF Len(cs) > cap THEN SubSeq(cs, 1, cap) ELSE cs

\* The clips 1..n, and their grouping by source video: none, one video, or
\* two videos with the first half and the second half
Groupings(n) ==
  { << >>, << [j \in 1..n |-> j] >>,
    << [j \in 1..(n \div 2) |-> j], [j \in 1..(n - (n \div 2)) |-> (n \div 2) + j] >> }

InitExtractorFinal ==
  /\ AnalyzerIdle
  /\ apc = "create_final_video"
  /\ \E n \in 0..MaxInputClips, sh \in BOOLEAN, smart \in BOOLEAN, rw \in BOOLEAN :
       \E by_video \in Groupings(n) :
          args = [ clips |-> [j \in 1..n |-> j], shuffle |-> sh,
                   smart_shuffle |-> smart, clips_by_video |-> by_video,
                   IS_RAILWAY |-> rw ]
  /\ work = << >>
  /\ ret = Pending
  /\ files = {}
  /\ closed = {}
  /\ next_id = 1
  /\ now = 0
  /\ log = << >>

\* lines 523-545: the truncation to the profile's cap
TruncateClips ==
  /\ apc = "create_final_video"
  /\ work' = [ clips |-> Truncated(args.clips, args.IS_RAILWAY) ]
  /\ apc' = "shuffle"
  /\ UNCHANGED << analyzer, args, ret, files, closed, next_id, now, log >>

\* lines 547-553: the smart shuffle over clips_by_video, or the random
\* shuffle, or the clips as they are; validation comes next
ShuffleClips ==
  /\ apc = "shuffle"
  /\ IF args.smart_shuffle /\ Len(args.clips_by_video) > 1
     THEN \E first \in Shuffles(args.clips_by_video[1]),
             second \in Shuffles(args.clips_by_video[2]) :
            work' = [ clips |-> smart_shuffle_clips(<< first, second >>) ]
     ELSE IF args.shuffle
     THEN \E shuffled \in Shuffles(work.clips) : work' = [ clips |-> shuffled ]
     ELSE work' = work
  /\ apc' = "validate"
  /\ UNCHANGED << analyzer, args, ret, files, closed, next_id, now, log >>

NextExtractorFinal ==
  \/ TruncateClips
  \/ ShuffleClips

SpecExtractorFinal == InitExtractorFinal /\ [][NextExtractorFinal]_vars

\* C24: in create_final_video the clips that enter validation and
\* concatenation are never more than the profile's cap (6 on Railway, 10
\* otherwise), whatever shuffle, smart_shuffle and clips_by_video are.
C24_ClipCapHolds ==
  apc = "validate" =>
     Len(work.clips) <= (IF args.IS_RAILWAY THEN MAX_CLIPS_RAILWAY ELSE MAX_CLIPS_LOCAL)

\* The audio stage ran and add_audio_to_video attached the track
AudioAttached ==
  \E q \in StageCalls : log[q].name = "audio" /\ log[q].ret.audio

\* C25: the clip given to the final encode carries the audio track exactly
\* when audio was configured and add_audio_to_video attached it, whether or
\* not a tagline is configured as well.
C25_AttachedAudioEncoded ==
  \A p \in EncodeCalls : log[p].clip.audio <=> AudioAttached

\* C26: no stage of create_final_video_ultra_safe is entered on a null working
\* clip: after a failed materialization of the logo's or the tagline's result
\* the run goes on with the last valid working clip.
C26_NoStageOnNullClip ==
  apc \in {"logo", "audio", "tagline", "pre_encode", "encode"} =>
     work.final_video # None

\* ------------------------------ safe_concatenate_with_materialization, again
\* C27: the clip safe_concatenate_with_materialization returns is open: on no
\* path (bulk, pairwise fallback, an exception in the middle of a round, last
\* resort) was close() called on it before the return.
C27_ReturnedClipOpen ==
  (apc = "done" /\ ret # None) => ret.id \notin closed

\* One step of the pairwise fallback: the next pair of the round, the next
\* round over a list at most half as long (rounded up), the return of the one
\* clip left, or the way out to the last resort
TournamentStep ==
  \/ /\ apc' = "pairs"
     /\ work'.materialized_clips = work.materialized_clips
     /\ work'.i > work.i
     /\ work'.i <= Len(work.materialized_clips) + 1
  \/ /\ apc' = "pairs"
     /\ Len(work'.materialized_clips) < Len(work.materialized_clips)
     /\ 2 * Len(work'.materialized_clips) <= Len(work.materialized_clips) + 1
     /\ Len(work'.materialized_clips) > 1
     /\ work'.i = 0
  \/ /\ apc' = "done"
     /\ Len(work'.materialized_clips) = 1
     /\ Len(work.materialized_clips) > 1
     /\ ret' = work'.materialized_clips[1]
  \/ apc' = "last_resort"

\* C28: the pairwise fallback terminates for every n >= 3 and every pattern
\* of failures: inside a round the index only grows, every round leaves a
\* strictly shorter list, and the loop is left with the one clip that remains
\* returned or towards the last resort.
C28_TournamentTerminates ==
  [][apc = "pairs" => TournamentStep]_vars

\* Two rounds over four clips, ended with a clip
C28_Witness ==
  /\ apc = "done"
  /\ ret # None
  /\ \E p \in BulkCalls : log[p].outcome = "raises" /\ Len(log[p].clips) = 4
  /\ Cardinality(PairCalls) = 3

\* ------------------------------------------- create_clips_from_segments, again
\* The segment at position p of the ranked list became a clip
Accepted(p) == \E c \in Range(clips) : c.start = segment_scores[p].start_time

\* C30: on the analyzer's output the Clip Selector's result is maximal for the
\* spacing rule: every scored segment starts at least min_clip_duration before
\* the end of the video, a segment that did not become a clip starts less than
\* min_distance from the start of a clip accepted from a better rank, and the
\* top-ranked segment always becomes the first clip.
C30_SelectionMaximal ==
  Returned =>
     /\ \A p \in 1..Len(segment_scores) :
          /\ segment_scores[p].start_time + settings.min_clip_duration <= duration
          /\ ~Accepted(p) =>
               \E q \in 1..(p - 1) :
                  /\ Accepted(q)
                  /\ Abs(segment_scores[p].start_time - segment_scores[q].start_time)
                       < min_distance
     /\ segment_scores # << >> =>
          /\ clips # << >>
          /\ clips[1].start = segment_scores[1].start_time

\* Several clips, and segments left out between them
C30_Witness ==
  /\ Returned
  /\ Len(clips) >= 2
  /\ Len(segment_scores) >= Len(clips) + 2

====
